---- MODULE Spec2Model ----
(***************************************************************************)
(* Job supervisor of server.py: one Job (subprocess, event bus, artifact   *)
(* scanner), its monitor thread, the two output-drain threads, the SSE     *)
(* observers of /api/events and the /api/cancel handler.                   *)
(*                                                                         *)
(* Text is modelled as a sequence of tokens (a token is a run of           *)
(* characters that the code never splits): a pipe line is a sequence of    *)
(* tokens ending in "\n", a relative path is a sequence of tokens whose    *)
(* directory tokens end in "/".  None is the empty sequence and Some(x)    *)
(* the one-element sequence, for Popen.returncode.                         *)
(***************************************************************************)
EXTENDS Integers, Sequences, FiniteSets, TLC

(***************************************************************************)
(* Program constants                                                       *)
(***************************************************************************)
JOB_TIMEOUT_SECONDS == 600
JOB_RETENTION_SECONDS == 3600
DEBOUNCE_CYCLES == 4
GRACE_SECONDS == 5
SIGTERM == 15
SIGKILL == 9

(***************************************************************************)
(* Bounds of the model                                                     *)
(***************************************************************************)
MaxLines == 1       \* lines the subprocess writes to its pipes, in total
MaxCancels == 1     \* calls of /api/cancel
MaxJumps == 1       \* times the clock leaps past the budget between two polls
MaxTicks == 1       \* times the clock advances between the steps of the registry
MaxParts == 3       \* components of the path of a request to /api/artifacts
MaxTokens == 3      \* tokens of a relative path given to _classify_artifact

None == << >>
Some(x) == << x >>

job_id == "job"
Streams == {"stdout", "stderr"}
Observers == {"o1"}
TwoObservers == {"o1", "o2"}

(***************************************************************************)
(* Text helpers                                                            *)
(***************************************************************************)
Whitespace == {" ", "\n"}

RECURSIVE rstrip(_)
rstrip(line) ==
    IF line = << >> THEN << >>
    ELSE IF line[Len(line)] \in Whitespace
         THEN rstrip(SubSeq(line, 1, Len(line) - 1))
         ELSE line

startswith(s, p) == Len(p) <= Len(s) /\ SubSeq(s, 1, Len(p)) = p
endswith(s, p) == Len(p) <= Len(s) /\ SubSeq(s, Len(s) - Len(p) + 1, Len(s)) = p

Digit == <<"0", "1", "2", "3", "4", "5", "6", "7", "8", "9">>

RECURSIVE str(_)
str(n) == IF n < 10 THEN << Digit[n + 1] >>
          ELSE str(n \div 10) \o << Digit[(n % 10) + 1] >>

\* lines the subprocess can write
Out == <<"ok", "\n">>
Boom == <<"boom", " ", "\n">>
Blank == <<" ", "\n">>
StdoutLines == {Out}
StderrLines == {Boom, Blank}

\* relative paths under output_dir
figure_png == <<"figure", ".png">>
samed_png == <<"samed", ".png">>
template_svg == <<"template", ".svg">>
optimized_template_svg == <<"optimized_", "template", ".svg">>
final_svg == <<"final", ".svg">>
icon_raw_png == <<"icons/", "icon_", "AF01", ".png">>
icon_nobg_png == <<"icons/", "icon_", "AF01", "_nobg", ".png">>
run_log == <<"run", ".log">>

\* files the subprocess of the model can create
FileUniverse == {figure_png, icon_nobg_png}
BusFiles == {icon_nobg_png}
ExitCodes == {0, 1}

IsDirToken(t) == t \in {"icons/"}

\* Path(rel_path).name
RECURSIVE PathName(_)
PathName(p) ==
    IF p = << >> THEN << >>
    ELSE IF \E i \in 1..Len(p) : IsDirToken(p[i])
         THEN PathName(Tail(p))
         ELSE p

\* Variant: the icons/ prefix rule tested before the _nobg.png suffix rule.
classify_prefix_first(rel_path) ==
    IF rel_path = figure_png THEN "figure"
    ELSE IF rel_path = samed_png THEN "samed"
    ELSE IF startswith(rel_path, <<"icons/">>) /\ endswith(rel_path, <<".png">>)
         THEN "icon_raw"
    ELSE IF endswith(rel_path, <<"_nobg", ".png">>) THEN "icon_nobg"
    ELSE IF rel_path = template_svg THEN "template_svg"
    ELSE IF rel_path = optimized_template_svg THEN "optimized_svg"
    ELSE IF rel_path = final_svg THEN "final_svg"
    ELSE "artifact"

classify_artifact(rel_path) ==
    IF rel_path = figure_png THEN "figure"
    ELSE IF rel_path = samed_png THEN "samed"
    ELSE IF endswith(rel_path, <<"_nobg", ".png">>) THEN "icon_nobg"
    ELSE IF startswith(rel_path, <<"icons/">>) /\ endswith(rel_path, <<".png">>)
         THEN "icon_raw"
    ELSE IF rel_path = template_svg THEN "template_svg"
    ELSE IF rel_path = optimized_template_svg THEN "optimized_svg"
    ELSE IF rel_path = final_svg THEN "final_svg"
    ELSE "artifact"

ArtifactUrl(rel) == <<"/api/artifacts/", job_id, "/">> \o rel

ArtifactData(rel_path) ==
    [kind |-> classify_artifact(rel_path), name |-> PathName(rel_path),
     path |-> rel_path, url |-> ArtifactUrl(rel_path)]

LogArtifactData ==
    [kind |-> "log", name |-> PathName(run_log), path |-> run_log,
     url |-> ArtifactUrl(PathName(run_log))]

Msg(event, data) == [event |-> event, data |-> data]

StartedData == [state |-> "started"]
CloseData == << >>

TimeoutMessage ==
    <<"timed out (over ">> \o str(JOB_TIMEOUT_SECONDS \div 60) \o <<" minutes), terminated">>

\* The fixed candidate list of _scan_artifacts
FixedCandidates ==
    <<figure_png, samed_png, template_svg, optimized_template_svg, final_svg>>

\* icons_dir.glob("icon_*.png")
GlobMatch(p) ==
    /\ Len(p) >= 3
    /\ p[1] = "icons/"
    /\ p[2] = "icon_"
    /\ p[Len(p)] = ".png"
    /\ \A i \in 2..Len(p) : ~IsDirToken(p[i])

IconsIsDir(fs) == \E p \in fs : startswith(p, <<"icons/">>)

RECURSIVE SetToSeq(_)
SetToSeq(S) == IF S = {} THEN << >>
               ELSE LET x == CHOOSE y \in S : TRUE IN << x >> \o SetToSeq(S \ {x})

Candidates(fs) ==
    FixedCandidates \o
        (IF IconsIsDir(fs) THEN SetToSeq({p \in fs : GlobMatch(p)}) ELSE << >>)

(***************************************************************************)
(* State                                                                   *)
(***************************************************************************)
VARIABLES
    now,            \* time.time(), in seconds
    JOBS,           \* the registry: the ids of the jobs it holds
    \* the subprocess and its output directory
    procAlive,      \* the subprocess has not exited
    procStatus,     \* its exit status once it has exited (None while alive)
    sig,            \* signal sent to it and not yet acted on
    returncode,     \* Popen.returncode: None until poll()/wait() reaps the exit
    files,          \* regular files in output_dir, as relative paths
    pipe,           \* per stream: lines written and not yet read
    nwritten,       \* lines written so far
    last_written,   \* the last line written to stderr (history)
    \* the Job
    started_at, finished_at, done, seen, last_stderr,
    queue,          \* Job.queue: every message put, in order
    subscribers,    \* Job._subscribers: the attached observers, in order
    \* monitor thread (_monitor_job)
    mpc, mret, mmsg, mphase, candidates, idle_cycles, timed_out, njumps,
    \* drain threads (_pipe_output)
    dpc, dmsg,
    \* observers (stream_events)
    opc, inflight, delivered, replayed, attach, endedBy,
    \* /api/cancel
    cpc, ncancel, cancel_log,
    \* history: the files output_dir held when the polling loop was left
    loop_end_files,
    \* the registry with several jobs (run_job, _cleanup_old_jobs)
    slots,          \* the entries of the dict JOBS, in insertion order
    fleet,          \* per job id: the submission, the Job and its monitor
    sweep,          \* per monitor: the state of its _cleanup_old_jobs call
    nticks,         \* times the clock has advanced
    \* /api/artifacts
    disk,           \* the regular files of the file system, as absolute paths
    areq, aresp,    \* the request being served and its response
    \* _classify_artifact on its own
    classify_in,    \* the relative path it is called with
    classify_out    \* the kind it has returned ("none" before the call)

procVars == <<procAlive, procStatus, sig, returncode, files, pipe, nwritten, last_written>>
jobVars == <<started_at, finished_at, done, seen, last_stderr, queue, subscribers>>
monVars == <<mpc, mret, mmsg, mphase, candidates, idle_cycles, timed_out, njumps>>
drainVars == <<dpc, dmsg>>
obsVars == <<opc, inflight, delivered, replayed, attach, endedBy>>
cancelVars == <<cpc, ncancel, cancel_log>>
histVars == <<loop_end_files>>
regVars == <<slots, fleet, sweep, nticks>>
artVars == <<disk, areq, aresp>>
fnVars == <<classify_in, classify_out>>
extVars == <<regVars, artVars, fnVars>>
\* the one job, everything but the clock and the registry
jobWorld == <<procVars, jobVars, monVars, drainVars, obsVars, cancelVars, histVars>>
vars == <<now, JOBS, jobWorld, extVars>>

\* The order of the statements that finalize a job (_monitor_job, after the
\* final scan): each name is the monitor's position before that statement.
\* Variants of the order: close put first; done set before the run-log artifact.
FinalizeCloseFirst == <<"close", "finished", "logartifact", "stamp", "done", "cleanup">>

FinalizeDoneEarly == <<"finished", "stamp", "done", "logartifact", "close", "cleanup">>

FinalizeStampLate == <<"finished", "logartifact", "done", "stamp", "close", "cleanup">>

FinalizeOrder == <<"finished", "logartifact", "stamp", "done", "close", "cleanup">>

StageAfter(stage) ==
    LET i == CHOOSE k \in 1..Len(FinalizeOrder) : FinalizeOrder[k] = stage
    IN IF i = Len(FinalizeOrder) THEN "end" ELSE FinalizeOrder[i + 1]

\* Ids of the jobs of the several-job registry, and the state of a job id
\* that has not been submitted.
RegJobs == {"j1", "j2", "j3"}

\* Job ids are fresh names (a timestamp and uuid4 digits): the submissions
\* take them in this order.
RegOrder == <<"j1", "j2", "j3">>

Unsubmitted ==
    [rpc |-> "idle", response |-> "none", inserts |-> 0, mon |-> "none",
     proc |-> "none", has_output |-> FALSE, done |-> FALSE, finished_at |-> 0]

NoSweep == [di_used |-> 0, len |-> 0, di_pos |-> 1, now |-> 0, expired |-> << >>]

NoRequest == [job |-> "none", absolute |-> FALSE, parts |-> << >>]

\* the registry part and the artifact part of the state, at rest
InitRegistryIdle ==
    /\ slots = << >>
    /\ fleet = [j \in RegJobs |-> Unsubmitted]
    /\ sweep = [j \in RegJobs |-> NoSweep]
    /\ nticks = 0

InitArtifactIdle == disk = {} /\ areq = NoRequest /\ aresp = "none"

InitClassifyIdle == classify_in = << >> /\ classify_out = "none"

\* The one job right after run_job has spawned the subprocess, built the Job
\* and started the monitor thread, with the clients Obs of /api/events.
InitJob(Obs) ==
    /\ now = 1
    /\ loop_end_files = {}
    /\ procAlive = TRUE /\ procStatus = None /\ sig = "none" /\ returncode = None
    /\ files = {}
    /\ pipe = [s \in Streams |-> << >>]
    /\ nwritten = 0
    /\ last_written = << >>
    /\ started_at = 1 /\ finished_at = 0 /\ done = FALSE /\ seen = {}
    /\ last_stderr = << >>
    /\ queue = << >>
    /\ subscribers = << >>
    /\ mpc = "start" /\ mret = "start" /\ mmsg = Msg("none", << >>)
    /\ mphase = "loop" /\ candidates = << >> /\ idle_cycles = 0
    /\ timed_out = FALSE /\ njumps = 0
    /\ dpc = [s \in Streams |-> "unstarted"]
    /\ dmsg = [s \in Streams |-> Msg("none", << >>)]
    /\ opc = [o \in Obs |-> "idle"]
    /\ inflight = [o \in Obs |-> << >>]
    /\ delivered = [o \in Obs |-> << >>]
    /\ replayed = [o \in Obs |-> {}]
    /\ attach = [o \in Obs |-> [from_start |-> FALSE, seen |-> {}, mode |-> "none"]]
    /\ endedBy = [o \in Obs |-> "none"]
    /\ cpc = "idle" /\ ncancel = 0 /\ cancel_log = << >>

\* State right after run_job has spawned the subprocess, built the Job,
\* inserted it into JOBS and started the monitor thread.
Init ==
    /\ InitJob(Observers) /\ JOBS = {job_id}
    /\ InitRegistryIdle /\ InitArtifactIdle /\ InitClassifyIdle

(***************************************************************************)
(* The subprocess (the external script) and the operations of Popen        *)
(***************************************************************************)
ProcWrite ==
    /\ procAlive /\ sig = "none" /\ nwritten < MaxLines
    /\ \E s \in Streams :
         \E line \in (IF s = "stdout" THEN StdoutLines ELSE StderrLines) :
            /\ pipe' = [pipe EXCEPT ![s] = Append(@, line)]
            /\ last_written' = IF s = "stderr" THEN line ELSE last_written
    /\ nwritten' = nwritten + 1
    /\ UNCHANGED <<extVars, histVars, now, JOBS, procAlive, procStatus, sig, returncode, files,
                   jobVars, monVars, drainVars, obsVars, cancelVars>>

ProcCreateFile(F) ==
    /\ procAlive /\ sig = "none"
    /\ \E f \in F \ files : files' = files \cup {f}
    /\ UNCHANGED <<extVars, histVars, now, JOBS, procAlive, procStatus, sig, returncode, pipe, nwritten,
                   last_written, jobVars, monVars, drainVars, obsVars,
                   cancelVars>>

\* the script returns or crashes on its own
ProcExit ==
    /\ procAlive /\ sig = "none"
    /\ \E c \in ExitCodes : procStatus' = Some(c)
    /\ procAlive' = FALSE
    /\ UNCHANGED <<extVars, histVars, now, JOBS, sig, returncode, files, pipe, nwritten, last_written,
                   jobVars, monVars, drainVars, obsVars, cancelVars>>

\* death by the signal sent: Popen reports it as the negated signal number
ProcSignalled ==
    /\ procAlive /\ sig # "none"
    /\ procAlive' = FALSE
    /\ procStatus' = Some(IF sig = "KILL" THEN 0 - SIGKILL ELSE 0 - SIGTERM)
    /\ sig' = "none"
    /\ UNCHANGED <<extVars, histVars, now, JOBS, returncode, files, pipe, nwritten, last_written,
                   jobVars, monVars, drainVars, obsVars, cancelVars>>

\* Popen.poll(): the value returncode has after the call
poll(rc) == IF rc = None /\ ~procAlive THEN procStatus ELSE rc

\* Popen.terminate() / Popen.kill(): the pending signal after the call.
\* Nothing is sent to a subprocess poll() finds exited.
send_signal(name) == IF poll(returncode) = None /\ sig # "KILL" THEN name ELSE sig

(***************************************************************************)
(* Job.push: queue.put(msg), then the fan-out under _sub_lock.  The two    *)
(* halves are separate steps of the pushing thread.                        *)
(***************************************************************************)
Range(f) == {f[i] : i \in DOMAIN f}

queue_put(msg) == queue' = Append(queue, msg)

\* the fan-out: call_soon_threadsafe(aq.put_nowait, msg) for every subscriber
\* Variant: a fan-out that puts the message in front of what is queued.
fan_out_in_front(msg) ==
    inflight' = [o \in DOMAIN inflight |->
                    IF o \in Range(subscribers) THEN << msg >> \o inflight[o]
                    ELSE inflight[o]]

fan_out(msg) ==
    inflight' = [o \in DOMAIN inflight |->
                    IF o \in Range(subscribers) THEN Append(inflight[o], msg)
                    ELSE inflight[o]]

(***************************************************************************)
(* _monitor_job                                                            *)
(***************************************************************************)
\* job.push("status", {"state": "started"}), first half
M_Start ==
    /\ mpc = "start"
    /\ queue_put(Msg("status", StartedData))
    /\ mmsg' = Msg("status", StartedData)
    /\ mpc' = "fan" /\ mret' = "spawn"
    /\ UNCHANGED <<extVars, histVars, now, JOBS, procVars, started_at, finished_at, done, seen,
                   last_stderr, subscribers, mphase, candidates, idle_cycles,
                   timed_out, njumps, drainVars, obsVars, cancelVars>>

\* second half of any push of the monitor
M_Fan ==
    /\ mpc = "fan"
    /\ fan_out(mmsg)
    /\ mpc' = mret
    /\ UNCHANGED <<extVars, histVars, now, JOBS, procVars, jobVars, mret, mmsg, mphase, candidates,
                   idle_cycles, timed_out, njumps, drainVars, opc, delivered,
                   replayed, attach, endedBy, cancelVars>>

\* The fan-out of the monitor when loop.call_soon_threadsafe raises for the
\* k-th subscriber (RuntimeError: its event loop is closed): the subscribers
\* in front of it have the message, the exception leaves push and, with no
\* handler in _monitor_job, ends the monitor thread.
M_FanRaises ==
    /\ mpc = "fan"
    /\ \E k \in 1..Len(subscribers) :
          inflight' = [o \in DOMAIN inflight |->
                          IF o \in Range(SubSeq(subscribers, 1, k - 1))
                          THEN Append(inflight[o], mmsg)
                          ELSE inflight[o]]
    /\ mpc' = "raised"
    /\ UNCHANGED <<extVars, histVars, now, JOBS, procVars, jobVars, mret, mmsg, mphase,
                   candidates, idle_cycles, timed_out, njumps, drainVars, opc,
                   delivered, replayed, attach, endedBy, cancelVars>>

\* stdout_thread.start(); stderr_thread.start(); idle_cycles = 0; timed_out = False
M_Spawn ==
    /\ mpc = "spawn"
    /\ dpc' = [s \in Streams |-> "read"]
    /\ idle_cycles' = 0 /\ timed_out' = FALSE
    /\ mphase' = "loop"
    /\ mpc' = "scan"
    /\ UNCHANGED <<extVars, histVars, now, JOBS, procVars, jobVars, mret, mmsg, candidates, njumps,
                   dmsg, obsVars, cancelVars>>

\* where the monitor goes when a scan has gone through its candidates
AfterScan == IF mphase = "loop" THEN "poll" ELSE FinalizeOrder[1]

\* rel_path in job.seen (negated): the path has not been reported yet
\* Variant: a scan that does not consult job.seen.
IsNewAlways(rel_path, seenset) == TRUE

IsNew(rel_path, seenset) == rel_path \notin seenset

\* "for path in candidates": the iterations that hit a continue (not a file,
\* or already seen) are taken together with the iteration that follows them
\* Variant: a loop without its two "continue" tests.
NoContinue(cands) == cands

RECURSIVE SkipContinued(_)
SkipContinued(cands) ==
    IF cands = << >> THEN << >>
    ELSE IF Head(cands) \in files /\ IsNew(Head(cands), seen) THEN cands
    ELSE SkipContinued(Tail(cands))

\* the loop body of _scan_artifacts from the candidates cands on: up to the
\* first half of the push of the next new artifact, or to the end of the scan
\* Variant: a monitor that scans in its polling loop only.
ScanInLoopOnly(cands) ==
    LET rest == IF mphase = "final" THEN << >> ELSE SkipContinued(cands)
    IN IF rest = << >>
       THEN /\ candidates' = << >>
            /\ mpc' = AfterScan
            /\ UNCHANGED <<seen, queue, mmsg, mret>>
       ELSE /\ candidates' = Tail(rest)
            /\ seen' = seen \cup {Head(rest)}
            /\ queue_put(Msg("artifact", ArtifactData(Head(rest))))
            /\ mmsg' = Msg("artifact", ArtifactData(Head(rest)))
            /\ mpc' = "fan" /\ mret' = "scan_loop"

\* Variant: a scan that publishes without recording the path in job.seen.
ScanWithoutRecord(cands) ==
    LET rest == SkipContinued(cands)
    IN IF rest = << >>
       THEN /\ candidates' = << >>
            /\ mpc' = AfterScan
            /\ UNCHANGED <<seen, queue, mmsg, mret>>
       ELSE /\ candidates' = Tail(rest)
            /\ seen' = seen
            /\ queue_put(Msg("artifact", ArtifactData(Head(rest))))
            /\ mmsg' = Msg("artifact", ArtifactData(Head(rest)))
            /\ mpc' = "fan" /\ mret' = "scan_loop"

ScanFrom(cands) ==
    LET rest == SkipContinued(cands)
    IN IF rest = << >>
       THEN /\ candidates' = << >>
            /\ mpc' = AfterScan
            /\ UNCHANGED <<seen, queue, mmsg, mret>>
       ELSE /\ candidates' = Tail(rest)
            /\ seen' = seen \cup {Head(rest)}
            /\ queue_put(Msg("artifact", ArtifactData(Head(rest))))
            /\ mmsg' = Msg("artifact", ArtifactData(Head(rest)))
            /\ mpc' = "fan" /\ mret' = "scan_loop"

\* _scan_artifacts, entry: the candidate list is built, the loop starts
M_ScanBegin ==
    /\ mpc = "scan"
    /\ ScanFrom(Candidates(files))
    /\ UNCHANGED <<extVars, histVars, now, JOBS, procVars, started_at, finished_at, done, last_stderr,
                   subscribers, mphase, idle_cycles, timed_out, njumps, drainVars,
                   obsVars, cancelVars>>

\* _scan_artifacts, the loop goes on after a push
M_ScanStep ==
    /\ mpc = "scan_loop"
    /\ ScanFrom(candidates)
    /\ UNCHANGED <<extVars, histVars, now, JOBS, procVars, started_at, finished_at, done, last_stderr,
                   subscribers, mphase, idle_cycles, timed_out, njumps, drainVars,
                   obsVars, cancelVars>>

\* The clock between two polls.  The model's clock tells "within the budget"
\* from "past the budget": the monitor's sleeps add up, unnoticed, until the
\* poll that reads the clock finds the budget exceeded.
ClockLeap ==
    /\ mpc = "poll"
    /\ njumps < MaxJumps
    /\ now' = now + JOB_TIMEOUT_SECONDS + 1
    /\ njumps' = njumps + 1
    /\ UNCHANGED <<extVars, histVars, JOBS, procVars, jobVars, mpc, mret, mmsg, mphase, candidates,
                   idle_cycles, timed_out, drainVars, obsVars, cancelVars>>

\* One poll cycle after the scan: the timeout check, the exit check, the
\* debounce counter, and time.sleep(0.5) when the loop goes on.
\* Variant: a poll cycle that counts every cycle, alive or not.
M_PollNoReset ==
    /\ mpc = "poll"
    /\ LET elapsed == now - started_at
           rc == poll(returncode)
       IN IF elapsed > JOB_TIMEOUT_SECONDS /\ rc = None
          THEN /\ mpc' = "terminate"
               /\ UNCHANGED <<returncode, idle_cycles, mphase, loop_end_files>>
          ELSE /\ returncode' = rc
               /\ idle_cycles' = idle_cycles + 1
               /\ mpc' = "scan"
               /\ mphase' = IF idle_cycles' >= DEBOUNCE_CYCLES THEN "final" ELSE "loop"
               /\ loop_end_files' = IF idle_cycles' >= DEBOUNCE_CYCLES THEN files
                                     ELSE loop_end_files
    /\ UNCHANGED <<extVars, now, njumps, JOBS, procAlive, procStatus, sig, files, pipe, nwritten,
                   last_written, jobVars, mret, mmsg, candidates, timed_out,
                   drainVars, obsVars, cancelVars>>

M_Poll ==
    /\ mpc = "poll"
    /\ LET elapsed == now - started_at
           rc == poll(returncode)
       IN IF elapsed > JOB_TIMEOUT_SECONDS /\ rc = None
          THEN /\ mpc' = "terminate"
               /\ UNCHANGED <<returncode, idle_cycles, mphase, loop_end_files>>
          ELSE /\ returncode' = rc
               /\ idle_cycles' = IF rc # None THEN idle_cycles + 1 ELSE 0
               /\ mpc' = "scan"
               /\ mphase' = IF idle_cycles' >= DEBOUNCE_CYCLES THEN "final" ELSE "loop"
               /\ loop_end_files' = IF idle_cycles' >= DEBOUNCE_CYCLES THEN files
                                     ELSE loop_end_files
    /\ UNCHANGED <<extVars, now, njumps, JOBS, procAlive, procStatus, sig, files, pipe, nwritten,
                   last_written, jobVars, mret, mmsg, candidates, timed_out,
                   drainVars, obsVars, cancelVars>>

\* job.process.terminate()
M_Terminate ==
    /\ mpc = "terminate"
    /\ sig' = send_signal("TERM")
    /\ returncode' = poll(returncode)
    /\ mpc' = "wait"
    /\ UNCHANGED <<extVars, histVars, now, JOBS, procAlive, procStatus, files, pipe, nwritten,
                   last_written, jobVars, mret, mmsg, mphase, candidates,
                   idle_cycles, timed_out, njumps, drainVars, obsVars,
                   cancelVars>>

\* job.process.wait(timeout=5): returns once the subprocess has exited, or
\* raises TimeoutExpired after the grace period with the subprocess alive
M_Wait ==
    /\ mpc = "wait"
    /\ \/ /\ ~procAlive
          /\ returncode' = poll(returncode)
          /\ timed_out' = TRUE
          /\ mphase' = "final" /\ mpc' = "scan"
          /\ loop_end_files' = files
          /\ UNCHANGED now
       \/ /\ procAlive
          /\ now' = now + GRACE_SECONDS
          /\ mpc' = "kill"
          /\ UNCHANGED <<returncode, timed_out, mphase, loop_end_files>>
    /\ UNCHANGED <<extVars, JOBS, procAlive, procStatus, sig, files, pipe, nwritten,
                   last_written, jobVars, mret, mmsg, candidates, idle_cycles,
                   njumps, drainVars, obsVars, cancelVars>>

\* job.process.kill(); timed_out = True; break
M_Kill ==
    /\ mpc = "kill"
    /\ sig' = send_signal("KILL")
    /\ returncode' = poll(returncode)
    /\ timed_out' = TRUE
    /\ mphase' = "final" /\ mpc' = "scan"
    /\ loop_end_files' = files
    /\ UNCHANGED <<extVars, now, JOBS, procAlive, procStatus, files, pipe, nwritten,
                   last_written, jobVars, mret, mmsg, candidates, idle_cycles,
                   njumps, drainVars, obsVars, cancelVars>>

\* finished_data of _monitor_job
\* Variants: the timeout branch left out; the error attached whatever the code.
finished_data_no_timeout ==
    IF returncode # None /\ returncode # Some(0) /\ last_stderr # << >>
    THEN [state |-> "finished", code |-> returncode, error |-> last_stderr]
    ELSE [state |-> "finished", code |-> returncode]

finished_data_any_stderr ==
    IF timed_out
    THEN [state |-> "finished", code |-> Some(0 - 1), error |-> TimeoutMessage]
    ELSE IF last_stderr # << >>
         THEN [state |-> "finished", code |-> returncode, error |-> last_stderr]
         ELSE [state |-> "finished", code |-> returncode]

finished_data ==
    IF timed_out
    THEN [state |-> "finished", code |-> Some(0 - 1), error |-> TimeoutMessage]
    ELSE IF returncode # None /\ returncode # Some(0) /\ last_stderr # << >>
         THEN [state |-> "finished", code |-> returncode, error |-> last_stderr]
         ELSE [state |-> "finished", code |-> returncode]

\* Variant: a monitor that joins the drain threads (end of stream on both
\* pipes) before it publishes the finished status.
M_FinishedAfterJoin ==
    /\ mpc = "finished"
    /\ ~procAlive /\ \A s \in Streams : pipe[s] = << >> /\ dpc[s] = "read"
    /\ queue_put(Msg("status", finished_data))
    /\ mmsg' = Msg("status", finished_data)
    /\ mpc' = "fan" /\ mret' = StageAfter("finished")
    /\ UNCHANGED <<extVars, histVars, now, JOBS, procVars, started_at, finished_at, done, seen,
                   last_stderr, subscribers, mphase, candidates, idle_cycles,
                   timed_out, njumps, drainVars, obsVars, cancelVars>>

\* job.push("status", finished_data), first half
M_Finished ==
    /\ mpc = "finished"
    /\ queue_put(Msg("status", finished_data))
    /\ mmsg' = Msg("status", finished_data)
    /\ mpc' = "fan" /\ mret' = StageAfter("finished")
    /\ UNCHANGED <<extVars, histVars, now, JOBS, procVars, started_at, finished_at, done, seen,
                   last_stderr, subscribers, mphase, candidates, idle_cycles,
                   timed_out, njumps, drainVars, obsVars, cancelVars>>

\* job.push("artifact", {"kind": "log", ...}), first half
M_LogArtifact ==
    /\ mpc = "logartifact"
    /\ queue_put(Msg("artifact", LogArtifactData))
    /\ mmsg' = Msg("artifact", LogArtifactData)
    /\ mpc' = "fan" /\ mret' = StageAfter("logartifact")
    /\ UNCHANGED <<extVars, histVars, now, JOBS, procVars, started_at, finished_at, done, seen,
                   last_stderr, subscribers, mphase, candidates, idle_cycles,
                   timed_out, njumps, drainVars, obsVars, cancelVars>>

\* job.finished_at = time.time()
M_Stamp ==
    /\ mpc = "stamp"
    /\ finished_at' = now
    /\ mpc' = StageAfter("stamp")
    /\ UNCHANGED <<extVars, histVars, now, JOBS, procVars, started_at, done, seen, last_stderr, queue,
                   subscribers, mret, mmsg, mphase, candidates, idle_cycles,
                   timed_out, njumps, drainVars, obsVars, cancelVars>>

\* job.done = True
M_Done ==
    /\ mpc = "done"
    /\ done' = TRUE
    /\ mpc' = StageAfter("done")
    /\ UNCHANGED <<extVars, histVars, now, JOBS, procVars, started_at, finished_at, seen, last_stderr,
                   queue, subscribers, mret, mmsg, mphase, candidates, idle_cycles,
                   timed_out, njumps, drainVars, obsVars, cancelVars>>

\* job.push("close", {}), first half
M_Close ==
    /\ mpc = "close"
    /\ queue_put(Msg("close", CloseData))
    /\ mmsg' = Msg("close", CloseData)
    /\ mpc' = "fan" /\ mret' = StageAfter("close")
    /\ UNCHANGED <<extVars, histVars, now, JOBS, procVars, started_at, finished_at, done, seen,
                   last_stderr, subscribers, mphase, candidates, idle_cycles,
                   timed_out, njumps, drainVars, obsVars, cancelVars>>

\* j.done and j.finished_at > 0 and (now - j.finished_at) > JOB_RETENTION_SECONDS
is_expired(d, f, t) == d /\ f > 0 /\ (t - f) > JOB_RETENTION_SECONDS

\* _cleanup_old_jobs: the ids the sweep removes at time t
expired(t) == {jid \in JOBS : is_expired(done, finished_at, t)}

M_Cleanup ==
    /\ mpc = "cleanup"
    /\ JOBS' = JOBS \ expired(now)
    /\ mpc' = StageAfter("cleanup")
    /\ UNCHANGED <<extVars, histVars, now, procVars, jobVars, mret, mmsg, mphase, candidates,
                   idle_cycles, timed_out, njumps, drainVars, obsVars,
                   cancelVars>>

\* the monitor without its timeout branch
monitor_run ==
    \/ M_Start \/ M_Fan \/ M_Spawn \/ M_ScanBegin \/ M_ScanStep \/ M_Poll
    \/ M_Finished \/ M_LogArtifact \/ M_Stamp \/ M_Done \/ M_Close \/ M_Cleanup

\* the timeout branch of the polling loop
monitor_timeout == M_Terminate \/ M_Wait \/ M_Kill

(***************************************************************************)
(* _pipe_output, one thread per stream                                     *)
(***************************************************************************)
\* for line in iter(pipe.readline, ""): text = line.rstrip(); if text:
\* job.write_log(...); job.push("log", ...), first half.  readline blocks
\* while the pipe is empty.  At end of stream the thread leaves the loop and
\* closes its pipe; nothing of the job depends on that, and the model leaves
\* the thread at its read with nothing more to read.
D_Read(s) ==
    /\ dpc[s] = "read"
    /\ pipe[s] # << >>
    /\ LET text == rstrip(Head(pipe[s]))
           msg == Msg("log", [stream |-> s, line |-> text])
       IN /\ pipe' = [pipe EXCEPT ![s] = Tail(@)]
          /\ IF text # << >>
             THEN /\ queue_put(msg)
                  /\ dmsg' = [dmsg EXCEPT ![s] = msg]
                  /\ dpc' = [dpc EXCEPT ![s] = "fan"]
             ELSE UNCHANGED <<queue, dmsg, dpc>>
    /\ UNCHANGED <<extVars, histVars, now, JOBS, procAlive, procStatus, sig, returncode, files, nwritten,
                   last_written, started_at, finished_at, done, seen, last_stderr,
                   subscribers, monVars, obsVars, cancelVars>>

\* second half of the push of a log line
D_Fan(s) ==
    /\ dpc[s] = "fan"
    /\ fan_out(dmsg[s])
    /\ dpc' = [dpc EXCEPT ![s] = IF s = "stderr" THEN "setlast" ELSE "read"]
    /\ UNCHANGED <<extVars, histVars, now, JOBS, procVars, jobVars, monVars, dmsg, opc, delivered,
                   replayed, attach, endedBy, cancelVars>>

\* if stream_name == "stderr": job.last_stderr = text
D_SetLast(s) ==
    /\ dpc[s] = "setlast"
    /\ last_stderr' = dmsg[s].data.line
    /\ dpc' = [dpc EXCEPT ![s] = "read"]
    /\ UNCHANGED <<extVars, histVars, now, JOBS, procVars, started_at, finished_at, done, seen, queue,
                   subscribers, monVars, dmsg, obsVars, cancelVars>>

pipe_output == \E s \in Streams : D_Read(s) \/ D_Fan(s) \/ D_SetLast(s)

(***************************************************************************)
(* stream_events: one observer of /api/events                              *)
(***************************************************************************)
\* Job.unsubscribe
unsubscribe(o) == SelectSeq(subscribers, LAMBDA q : q # o)

\* no fan-out has been performed yet: the job has just been submitted
NothingFannedYet == mpc = "start" \/ (mpc = "fan" /\ mret = "spawn")

\* aq = job.subscribe(loop), in the request handler
O_Subscribe(o) ==
    /\ opc[o] = "idle"
    /\ job_id \in JOBS
    /\ subscribers' = Append(subscribers, o)
    /\ attach' = [attach EXCEPT ![o].from_start = NothingFannedYet]
    /\ opc' = [opc EXCEPT ![o] = "subscribed"]
    /\ UNCHANGED <<extVars, histVars, now, JOBS, procVars, started_at, finished_at, done, seen,
                   last_stderr, queue, monVars, drainVars, inflight, delivered,
                   replayed, endedBy, cancelVars>>

\* event_stream starts: if job.done
O_Begin(o) ==
    /\ opc[o] = "subscribed"
    /\ opc' = [opc EXCEPT ![o] = IF done THEN "replay" ELSE "live"]
    /\ attach' = [attach EXCEPT ![o].seen = seen,
                                ![o].mode = IF done THEN "replay" ELSE "live"]
    /\ UNCHANGED <<extVars, histVars, now, JOBS, procVars, jobVars, monVars, drainVars, inflight,
                   delivered, replayed, endedBy, cancelVars>>

\* for rel_path in job.seen: the paths the replay has still to yield
\* Variant: a replay that yields no artifact.
ReplayNothing(o) == {}

ReplayRemaining(o) == seen \ replayed[o]

O_ReplayArtifact(o) ==
    /\ opc[o] = "replay"
    /\ \E rel_path \in ReplayRemaining(o) :
          /\ delivered' = [delivered EXCEPT ![o] =
                              Append(@, Msg("artifact", ArtifactData(rel_path)))]
          /\ replayed' = [replayed EXCEPT ![o] = @ \cup {rel_path}]
    /\ UNCHANGED <<extVars, histVars, now, JOBS, procVars, jobVars, monVars, drainVars, opc, inflight,
                   attach, endedBy, cancelVars>>

\* finished_data of the replay
replay_finished_data ==
    IF returncode # None /\ returncode # Some(0) /\ last_stderr # << >>
    THEN [state |-> "finished", code |-> returncode, error |-> last_stderr]
    ELSE [state |-> "finished", code |-> returncode]

\* yield the finished status; return; finally: job.unsubscribe(aq)
O_ReplayFinished(o) ==
    /\ opc[o] = "replay"
    /\ ReplayRemaining(o) = {}
    /\ delivered' = [delivered EXCEPT ![o] = Append(@, Msg("status", replay_finished_data))]
    /\ subscribers' = unsubscribe(o)
    /\ opc' = [opc EXCEPT ![o] = "ended"]
    /\ endedBy' = [endedBy EXCEPT ![o] = "replay"]
    /\ UNCHANGED <<extVars, histVars, now, JOBS, procVars, started_at, finished_at, done, seen,
                   last_stderr, queue, monVars, drainVars, inflight, replayed, attach,
                   cancelVars>>

\* The loop runs a scheduled aq.put_nowait(msg) and the pending aq.get()
\* returns msg: "close" ends the stream, anything else is yielded.
O_Consume(o) ==
    /\ opc[o] = "live"
    /\ inflight[o] # << >>
    /\ inflight' = [inflight EXCEPT ![o] = Tail(@)]
    /\ IF Head(inflight[o]).event = "close"
       THEN /\ subscribers' = unsubscribe(o)
            /\ opc' = [opc EXCEPT ![o] = "ended"]
            /\ endedBy' = [endedBy EXCEPT ![o] = "close"]
            /\ UNCHANGED delivered
       ELSE /\ delivered' = [delivered EXCEPT ![o] = Append(@, Head(inflight[o]))]
            /\ UNCHANGED <<subscribers, opc, endedBy>>
    /\ UNCHANGED <<extVars, histVars, now, JOBS, procVars, started_at, finished_at, done, seen,
                   last_stderr, queue, monVars, drainVars, replayed, attach,
                   cancelVars>>

\* asyncio.TimeoutError after 10 s without an item: the stream ends if
\* job.done, else a keepalive comment is sent (no event)
O_Timeout(o) ==
    /\ opc[o] = "live"
    /\ IF done
       THEN /\ subscribers' = unsubscribe(o)
            /\ opc' = [opc EXCEPT ![o] = "ended"]
            /\ endedBy' = [endedBy EXCEPT ![o] = "timeout"]
       ELSE UNCHANGED <<subscribers, opc, endedBy>>
    /\ UNCHANGED <<extVars, histVars, now, JOBS, procVars, started_at, finished_at, done, seen,
                   last_stderr, queue, monVars, drainVars, inflight, delivered,
                   replayed, attach, cancelVars>>

\* The client goes away.  A generator that is running (suspended at its
\* await or at a yield) is cancelled or closed and its finally clause calls
\* job.unsubscribe(aq).  A generator the response has not started to iterate
\* is dropped without having entered its try: no finally clause runs, and
\* the queue the handler registered stays in _subscribers.
O_Disconnect(o) ==
    /\ opc[o] \in {"subscribed", "replay", "live"}
    /\ subscribers' = IF opc[o] = "subscribed" THEN subscribers ELSE unsubscribe(o)
    /\ opc' = [opc EXCEPT ![o] = "ended"]
    /\ endedBy' = [endedBy EXCEPT ![o] = "disconnect"]
    /\ UNCHANGED <<extVars, histVars, now, JOBS, procVars, started_at, finished_at, done, seen,
                   last_stderr, queue, monVars, drainVars, inflight, delivered,
                   replayed, attach, cancelVars>>

stream_events ==
    \E o \in DOMAIN opc :
        \/ O_Subscribe(o) \/ O_Begin(o) \/ O_ReplayArtifact(o) \/ O_ReplayFinished(o)
        \/ O_Consume(o) \/ O_Timeout(o)

(***************************************************************************)
(* cancel_job                                                              *)
(***************************************************************************)
\* job = JOBS.get(job_id); if job.done: return "already_finished"
C_Check ==
    /\ cpc = "idle"
    /\ ncancel < MaxCancels
    /\ job_id \in JOBS
    /\ IF done
       THEN /\ cancel_log' = Append(cancel_log,
                                [status |-> "already_finished", signalled |-> FALSE,
                                 exited |-> ~procAlive])
            /\ ncancel' = ncancel + 1
            /\ UNCHANGED cpc
       ELSE /\ cpc' = "terminate"
            /\ UNCHANGED <<cancel_log, ncancel>>
    /\ UNCHANGED <<extVars, histVars, now, JOBS, procVars, jobVars, monVars, drainVars, obsVars>>

\* job.process.terminate(); return "cancelled"
\* Variant: a cancellation that marks the job done itself.
C_TerminateAndMarkDone ==
    /\ cpc = "terminate"
    /\ sig' = send_signal("TERM")
    /\ returncode' = poll(returncode)
    /\ cancel_log' = Append(cancel_log,
                        [status |-> "cancelled", signalled |-> (poll(returncode) = None),
                         exited |-> ~procAlive])
    /\ ncancel' = ncancel + 1
    /\ cpc' = "idle"
    /\ done' = TRUE
    /\ UNCHANGED <<extVars, histVars, now, JOBS, procAlive, procStatus, files, pipe, nwritten,
                   last_written, started_at, finished_at, seen, last_stderr, queue,
                   subscribers, monVars, drainVars, obsVars>>

C_Terminate ==
    /\ cpc = "terminate"
    /\ sig' = send_signal("TERM")
    /\ returncode' = poll(returncode)
    /\ cancel_log' = Append(cancel_log,
                        [status |-> "cancelled", signalled |-> (poll(returncode) = None),
                         exited |-> ~procAlive])
    /\ ncancel' = ncancel + 1
    /\ cpc' = "idle"
    /\ UNCHANGED <<extVars, histVars, now, JOBS, procAlive, procStatus, files, pipe, nwritten,
                   last_written, jobVars, monVars, drainVars, obsVars>>

cancel_job == C_Check \/ C_Terminate

subprocess(F) == ProcWrite \/ ProcCreateFile(F) \/ ProcExit

(***************************************************************************)
(* The registry with several jobs: run_job inserts, each monitor ends with *)
(* _cleanup_old_jobs.  A job of RegJobs is followed from its submission to *)
(* the end of its monitor; what its monitor does between its start and its *)
(* finalization (the polling loop, the events) is the one job above.       *)
(*                                                                         *)
(* JOBS is a dict: slots is its entry table, in insertion order, a popped  *)
(* entry leaving "dummy" behind; an insertion appends, after the resize    *)
(* that packs the table when the insertion finds no free room in it.  The  *)
(* room left depends on the insertions of the server's past, which are not *)
(* followed here: an insertion resizes or not.                             *)
(***************************************************************************)
Dummy == "dummy"

Packed(tbl) == SelectSeq(tbl, LAMBDA e : e # Dummy)

\* log_path.write_text(...); process = subprocess.Popen(...): the spawn
\* succeeds, or raises and the except clause answers with status 500
R_Popen(j) ==
    /\ fleet[j].rpc = "idle"
    /\ \A k \in 2..Len(RegOrder) : RegOrder[k] = j => fleet[RegOrder[k - 1]].rpc # "idle"
    /\ \E ok \in BOOLEAN :
          fleet' = [fleet EXCEPT ![j] =
                       IF ok
                       THEN [@ EXCEPT !.rpc = "spawned", !.proc = "running",
                                      !.has_output = TRUE]
                       ELSE [@ EXCEPT !.rpc = "failed", !.response = "error",
                                      !.has_output = TRUE]]
    /\ UNCHANGED <<now, JOBS, jobWorld, slots, sweep, nticks, artVars, fnVars>>

\* Variant: an insertion that does not depend on the spawn.
R_InsertWhateverSpawn(j) ==
    /\ fleet[j].rpc \in {"spawned", "failed"}
    /\ JOBS' = JOBS \cup {j}
    /\ \E resize \in BOOLEAN :
          slots' = Append(IF resize THEN Packed(slots) ELSE slots, j)
    /\ fleet' = [fleet EXCEPT ![j].rpc = "inserted", ![j].inserts = @ + 1]
    /\ UNCHANGED <<now, jobWorld, sweep, nticks, artVars, fnVars>>

\* job = Job(...); JOBS[job_id] = job
R_Insert(j) ==
    /\ fleet[j].rpc = "spawned"
    /\ JOBS' = JOBS \cup {j}
    /\ \E resize \in BOOLEAN :
          slots' = Append(IF resize THEN Packed(slots) ELSE slots, j)
    /\ fleet' = [fleet EXCEPT ![j].rpc = "inserted", ![j].inserts = @ + 1]
    /\ UNCHANGED <<now, jobWorld, sweep, nticks, artVars, fnVars>>

\* monitor_thread.start(); return JSONResponse({"job_id": job_id})
R_StartMonitor(j) ==
    /\ fleet[j].rpc = "inserted"
    /\ fleet' = [fleet EXCEPT ![j].rpc = "returned", ![j].response = "ok",
                              ![j].mon = "running"]
    /\ UNCHANGED <<now, JOBS, jobWorld, slots, sweep, nticks, artVars, fnVars>>

run_job == \E j \in RegJobs : R_Popen(j) \/ R_Insert(j) \/ R_StartMonitor(j)

\* the monitor of job j from the exit of its subprocess to the statement in
\* front of the sweep: job.finished_at = time.time(); job.done = True
J_Finalize(j) ==
    /\ fleet[j].mon = "running"
    /\ fleet' = [fleet EXCEPT ![j].proc = "exited", ![j].finished_at = now,
                              ![j].done = TRUE, ![j].mon = "sweep"]
    /\ UNCHANGED <<now, JOBS, jobWorld, slots, sweep, nticks, artVars, fnVars>>

\* now = time.time(); the list comprehension creates its iterator on
\* JOBS.items()
S_Begin(j) ==
    /\ fleet[j].mon = "sweep"
    /\ sweep' = [sweep EXCEPT ![j] =
                     [di_used |-> Cardinality(JOBS), len |-> Cardinality(JOBS),
                      di_pos |-> 1, now |-> now, expired |-> << >>]]
    /\ fleet' = [fleet EXCEPT ![j].mon = "iter"]
    /\ UNCHANGED <<now, JOBS, jobWorld, slots, nticks, artVars, fnVars>>

\* the first used entry of the table at or after position pos (0: none)
NextUsed(pos) ==
    IF \E i \in pos..Len(slots) : slots[i] # Dummy
    THEN CHOOSE i \in pos..Len(slots) :
            slots[i] # Dummy /\ \A k \in pos..(i - 1) : slots[k] = Dummy
    ELSE 0

\* One iteration of the comprehension: next() on the dict iterator, which
\* raises RuntimeError when the dict has changed size since the iterator was
\* made, or when it finds an entry after having yielded as many as the dict
\* held; else the condition on the entry found, or the end of the iteration.
S_Next(j) ==
    /\ fleet[j].mon = "iter"
    /\ LET it == sweep[j]
           i == NextUsed(it.di_pos)
       IN IF it.di_used # Cardinality(JOBS)
          THEN /\ fleet' = [fleet EXCEPT ![j].mon = "raised"]
               /\ UNCHANGED sweep
          ELSE IF i = 0
          THEN /\ fleet' = [fleet EXCEPT ![j].mon = "pop"]
               /\ UNCHANGED sweep
          ELSE IF it.len = 0
          THEN /\ fleet' = [fleet EXCEPT ![j].mon = "raised"]
               /\ UNCHANGED sweep
          ELSE /\ sweep' = [sweep EXCEPT
                               ![j].di_pos = i + 1,
                               ![j].len = @ - 1,
                               ![j].expired =
                                   IF is_expired(fleet[slots[i]].done,
                                                 fleet[slots[i]].finished_at, it.now)
                                   THEN Append(@, slots[i]) ELSE @]
               /\ UNCHANGED fleet
    /\ UNCHANGED <<now, JOBS, jobWorld, slots, nticks, artVars, fnVars>>

\* for jid in expired: JOBS.pop(jid, None); the monitor thread ends after
\* the last one
S_Pop(j) ==
    /\ fleet[j].mon = "pop"
    /\ IF sweep[j].expired = << >>
       THEN /\ fleet' = [fleet EXCEPT ![j].mon = "end"]
            /\ UNCHANGED <<JOBS, slots, sweep>>
       ELSE LET jid == Head(sweep[j].expired)
            IN /\ JOBS' = JOBS \ {jid}
               /\ slots' = [i \in 1..Len(slots) |->
                               IF slots[i] = jid THEN Dummy ELSE slots[i]]
               /\ sweep' = [sweep EXCEPT ![j].expired = Tail(@)]
               /\ UNCHANGED fleet
    /\ UNCHANGED <<now, jobWorld, nticks, artVars, fnVars>>

cleanup_old_jobs == \E j \in RegJobs : S_Begin(j) \/ S_Next(j) \/ S_Pop(j)

\* time passes: the retention window to the second, or one second more
ClockTick ==
    /\ nticks < MaxTicks
    /\ \E d \in {JOB_RETENTION_SECONDS, JOB_RETENTION_SECONDS + 1} : now' = now + d
    /\ nticks' = nticks + 1
    /\ UNCHANGED <<JOBS, jobWorld, slots, fleet, sweep, artVars, fnVars>>

(***************************************************************************)
(* get_artifact.  An absolute path is the sequence of its components, a    *)
(* component is a sequence of tokens; str() of a path puts "/" in front of *)
(* each component.  The file system has no symbolic link: resolve() only   *)
(* takes the ".." components out.                                          *)
(***************************************************************************)
BaseDir == << <<"srv">> >>
OUTPUTS_DIR == BaseDir \o << <<"outputs">> >>
output_dir == OUTPUTS_DIR \o << <<job_id>> >>
DotDot == <<"..">>

\* a directory next to output_dir whose name starts with the job's
SiblingDir == OUTPUTS_DIR \o << <<job_id, "_old">> >>

\* the regular files the file system can hold
DiskUniverse ==
    { output_dir \o << figure_png >>,
      SiblingDir \o << <<"secret">> >>,
      BaseDir \o << <<"secret">> >> }

\* the components a request path is made of
PartUniverse == {DotDot, figure_png, <<"secret">>, <<job_id, "_old">>, <<"outputs">>}

RequestPaths == UNION {[1..n -> PartUniverse] : n \in 1..MaxParts}

RECURSIVE path_str(_)
path_str(parts) ==
    IF parts = << >> THEN << >>
    ELSE <<"/">> \o Head(parts) \o path_str(Tail(parts))

\* Path.resolve() of an absolute path: ".." drops the component in front of
\* it, and is dropped at the root
RECURSIVE resolve_from(_, _)
resolve_from(done_parts, parts) ==
    IF parts = << >> THEN done_parts
    ELSE IF Head(parts) = DotDot
         THEN resolve_from(IF done_parts = << >> THEN << >>
                           ELSE SubSeq(done_parts, 1, Len(done_parts) - 1),
                           Tail(parts))
         ELSE resolve_from(Append(done_parts, Head(parts)), Tail(parts))

resolve(parts) == resolve_from(<< >>, parts)

\* job.output_dir / path: an absolute path replaces the left operand
joinpath(dir, req) == IF req.absolute THEN req.parts ELSE dir \o req.parts

\* candidate = (job.output_dir / path).resolve()
candidate_of(req) == resolve(joinpath(output_dir, req))

\* str(candidate).startswith(str(job.output_dir.resolve()))
contained(candidate) == startswith(path_str(candidate), path_str(resolve(output_dir)))

get_artifact(req) ==
    IF req.job \notin JOBS THEN "404 Job not found"
    ELSE IF ~contained(candidate_of(req)) THEN "400 Invalid path"
    ELSE IF candidate_of(req) \notin disk THEN "404 File not found"
    ELSE "200 FileResponse"

\* a request arrives
A_Request ==
    /\ aresp # "pending"
    /\ \E j \in {job_id, "nojob"}, a \in BOOLEAN, parts \in RequestPaths :
          areq' = [job |-> j, absolute |-> a, parts |-> parts]
    /\ aresp' = "pending"
    /\ UNCHANGED <<now, JOBS, jobWorld, regVars, fnVars, disk>>

\* get_artifact answers it
A_Respond ==
    /\ aresp = "pending"
    /\ aresp' = get_artifact(areq)
    /\ UNCHANGED <<now, JOBS, jobWorld, regVars, fnVars, disk, areq>>

(***************************************************************************)
(* _classify_artifact called on any relative path.  The tokens are chosen  *)
(* so that a path is written in one way only and the character tests of    *)
(* the code (==, startswith, endswith) are the same tests on tokens.       *)
(***************************************************************************)
PathTokens ==
    {"icons/", "sub/", "icon_", "AF01", "_nobg", ".png", ".svg", "figure", "samed",
     "template", "optimized_", "final"}

PathInputs == UNION {[1..n -> PathTokens] : n \in 0..MaxTokens}

F_Classify ==
    /\ classify_out = "none"
    /\ classify_out' = classify_artifact(classify_in)
    /\ UNCHANGED <<now, JOBS, jobWorld, regVars, artVars, classify_in>>

(***************************************************************************)
(* Specifications.  Every one runs the subprocess, the monitor and the     *)
(* drain threads; they differ in what else goes on around the job.         *)
(***************************************************************************)
Core(F) == subprocess(F) \/ monitor_run \/ pipe_output

\* the event bus: a job that runs to its exit, with an observer
Next == Core(BusFiles) \/ stream_events

Spec == Init /\ [][Next]_vars

\* the control paths: the timeout branch and /api/cancel, without observers
NextControl == Core(FileUniverse) \/ ClockLeap \/ monitor_timeout \/ ProcSignalled \/ cancel_job

SpecControl == Init /\ [][NextControl]_vars

\* The control paths with the scheduling the code relies on: the monitor
\* thread keeps running, and time passes while it polls (each cycle sleeps
\* half a second).  Nothing is assumed of the subprocess, of the drain
\* threads or of /api/cancel.
FairControl ==
    /\ WF_vars(monitor_run \/ monitor_timeout)
    /\ SF_vars(ClockLeap)

SpecLive == Init /\ [][NextControl]_vars /\ FairControl

\* the registry: submissions, finalizations and sweeps of three jobs
InitRegistry ==
    /\ InitJob(Observers) /\ JOBS = {}
    /\ InitRegistryIdle /\ InitArtifactIdle /\ InitClassifyIdle

NextRegistry ==
    \/ run_job
    \/ \E j \in RegJobs : J_Finalize(j)
    \/ cleanup_old_jobs
    \/ ClockTick

SpecRegistry == InitRegistry /\ [][NextRegistry]_vars

\* /api/artifacts: requests for the files of one job, on any file system
InitArtifact ==
    /\ InitJob(Observers) /\ JOBS = {job_id} /\ InitRegistryIdle /\ InitClassifyIdle
    /\ disk \in SUBSET DiskUniverse
    /\ areq = NoRequest /\ aresp = "none"

NextArtifact == A_Request \/ A_Respond

SpecArtifact == InitArtifact /\ [][NextArtifact]_vars

\* _classify_artifact on every path of up to MaxTokens tokens
InitClassify ==
    /\ InitJob(Observers) /\ JOBS = {job_id} /\ InitRegistryIdle /\ InitArtifactIdle
    /\ classify_in \in PathInputs
    /\ classify_out = "none"

NextClassify == F_Classify

SpecClassify == InitClassify /\ [][NextClassify]_vars

\* the event bus on every path to the end of the job (exit, cancellation,
\* timeout), with an observer
NextReplay ==
    \/ Core(BusFiles) \/ ClockLeap \/ monitor_timeout \/ ProcSignalled \/ cancel_job
    \/ stream_events

SpecReplay == Init /\ [][NextReplay]_vars

\* the event bus with a client that can go away at any time
NextStreams == Next \/ (\E o \in DOMAIN opc : O_Disconnect(o))

SpecStreams == Init /\ [][NextStreams]_vars

\* the event bus when a delivery to a subscriber can fail
NextFaults == Next \/ M_FanRaises

SpecFaults == Init /\ [][NextFaults]_vars

\* the fan-out: two observers of a job that writes no artifact file (its
\* scans find nothing and a replay has no artifact to yield)
InitFan ==
    /\ InitJob(TwoObservers) /\ JOBS = {job_id}
    /\ InitRegistryIdle /\ InitArtifactIdle /\ InitClassifyIdle

NextFan ==
    \/ ProcWrite \/ ProcExit
    \/ M_Start \/ M_Fan \/ M_Spawn \/ M_ScanBegin \/ M_Poll
    \/ M_Finished \/ M_LogArtifact \/ M_Stamp \/ M_Done \/ M_Close \/ M_Cleanup
    \/ pipe_output
    \/ \E o \in DOMAIN opc :
          \/ O_Subscribe(o) \/ O_Begin(o) \/ O_ReplayFinished(o)
          \/ O_Consume(o) \/ O_Timeout(o)

SpecFan == InitFan /\ [][NextFan]_vars

(***************************************************************************)
(* Vocabulary of the properties                                            *)
(***************************************************************************)
IsStarted(m) == m.event = "status" /\ m.data.state = "started"
IsFinished(m) == m.event = "status" /\ m.data.state = "finished"
IsClose(m) == m.event = "close"
IsLog(m) == m.event = "log"
IsArtifact(m) == m.event = "artifact"
IsPublished(m) == m.event \in {"status", "artifact"}

Count(s, P(_)) == Len(SelectSeq(s, P))
Contains(s, sub) == \E i \in 1..(Len(s) - Len(sub) + 1) : SubSeq(s, i, i + Len(sub) - 1) = sub

\* every message the fan-outs have put into the queue of observer o, in order
Received(o) ==
    IF attach[o].mode = "replay" THEN inflight[o]
    ELSE delivered[o]
         \o (IF endedBy[o] = "close" THEN << Msg("close", CloseData) >> ELSE << >>)
         \o inflight[o]

\* started first; at most one started, finished, close; finished after
\* started, close after finished; only log and artifact events before finished
BusOrder(s) ==
    /\ s # << >> => IsStarted(s[1])
    /\ \A i, j \in 1..Len(s) :
          \/ i = j
          \/ ~(IsStarted(s[i]) /\ IsStarted(s[j]))
             /\ ~(IsFinished(s[i]) /\ IsFinished(s[j]))
             /\ ~(IsClose(s[i]) /\ IsClose(s[j]))
    /\ \A i \in 1..Len(s) : IsFinished(s[i]) => i > 1
    /\ \A i \in 1..Len(s) : IsClose(s[i]) => \E j \in 1..(i - 1) : IsFinished(s[j])
    /\ \A i \in 2..Len(s) :
          (\A j \in 1..i : ~IsFinished(s[j])) => (IsLog(s[i]) \/ IsArtifact(s[i]))
    /\ \A i \in 1..Len(s) : s[i].event \in {"status", "log", "artifact", "close"}

BusComplete(s) ==
    /\ Count(s, IsStarted) = 1
    /\ Count(s, IsFinished) = 1
    /\ Count(s, IsClose) = 1

\* observer o was attached when the close event was fanned out
AttachedAtClose(o) == o \in Range(subscribers) \/ endedBy[o] = "close"

(***************************************************************************)
(* C1. The durable queue, and the queue of every subscriber attached from  *)
(* submission, hold: the started status first, then log and artifact       *)
(* events, then the one finished status, then the one close, in that       *)
(* order; once the monitor has ended each of the three occurs exactly      *)
(* once, for a subscriber as long as it was still attached at the close.   *)
(* As stated (C1_EventOrder_Original) the close follows the finished       *)
(* status directly; C1_EventOrder lets artifact and log events (the        *)
(* run-log artifact the monitor puts after the finished status, lines the  *)
(* drain threads put late) lie between the two.                            *)
(***************************************************************************)
CloseFollowsFinished(s) ==
    \A i, j \in 1..Len(s) : (IsFinished(s[i]) /\ IsClose(s[j])) => j = i + 1

C1_EventOrder_Original ==
    /\ BusOrder(queue) /\ CloseFollowsFinished(queue)
    /\ mpc = "end" => BusComplete(queue)
    /\ \A o \in Observers :
          attach[o].from_start =>
             /\ BusOrder(Received(o)) /\ CloseFollowsFinished(Received(o))
             /\ (mpc = "end" /\ AttachedAtClose(o)) => BusComplete(Received(o))

C1_EventOrder ==
    /\ BusOrder(queue)
    /\ mpc = "end" => BusComplete(queue)
    /\ \A o \in Observers :
          attach[o].from_start =>
             /\ BusOrder(Received(o))
             /\ (mpc = "end" /\ AttachedAtClose(o)) => BusComplete(Received(o))

C1_Witness ==
    /\ mpc = "end"
    /\ \E o \in Observers :
          /\ attach[o].from_start
          /\ endedBy[o] = "close"
          /\ Count(delivered[o], IsLog) > 0
          /\ Count(delivered[o], IsArtifact) > 1
          /\ Count(delivered[o], IsFinished) = 1

(***************************************************************************)
(* C2. No event follows close, in the durable queue and in the queue of    *)
(* any subscriber.                                                         *)
(***************************************************************************)
NothingAfterClose(s) == \A i \in 1..Len(s) : IsClose(s[i]) => i = Len(s)

C2_NoEventAfterClose ==
    /\ NothingAfterClose(queue)
    /\ \A o \in Observers : NothingAfterClose(Received(o))

(***************************************************************************)
(* C3. Once done is true no status or artifact event is published any      *)
(* more, to the durable queue or to a subscriber; an observer whose stream *)
(* starts after done gets the replay.                                      *)
(***************************************************************************)
C3_QuietAfterDone ==
    [][done =>
         /\ Count(queue', IsPublished) = Count(queue, IsPublished)
         /\ \A o \in Observers :
               /\ Count(inflight'[o], IsPublished) <= Count(inflight[o], IsPublished)
               /\ (opc[o] = "subscribed" /\ opc'[o] # "subscribed") => opc'[o] = "replay"
               /\ opc[o] = "replay" =>
                     SubSeq(inflight'[o], 1, Len(inflight[o])) = inflight[o]
      ]_vars

C3_Witness ==
    /\ done
    /\ \E i \in 1..Len(queue) : IsClose(queue[i]) /\ i < Len(queue)
    /\ \E o \in Observers : endedBy[o] = "replay"

(***************************************************************************)
(* C4. At most one artifact event carries a given relative path, in the    *)
(* durable queue, whatever the number of scans and whenever files appear.  *)
(***************************************************************************)
C4_ArtifactOnce ==
    \A i, j \in 1..Len(queue) :
        (IsArtifact(queue[i]) /\ IsArtifact(queue[j]) /\ queue[i].data.path = queue[j].data.path)
            => i = j

C4_Witness ==
    /\ mpc = "end"
    /\ seen = FileUniverse
    /\ Count(queue, IsArtifact) = Cardinality(FileUniverse) + 1

(***************************************************************************)
(* C5. An observer whose stream starts after done is in replay: it yields  *)
(* one artifact event for each path of seen as it was when the stream      *)
(* started and for no other path, then the one finished status, consumes   *)
(* nothing of its live queue, and ends detached.                           *)
(***************************************************************************)
ReplayedPaths(o) == {delivered[o][i].data.path : i \in {k \in 1..Len(delivered[o]) : IsArtifact(delivered[o][k])}}

C5_Replay ==
    \A o \in Observers :
        /\ attach[o].mode = "replay" =>
              /\ attach[o].seen = seen
              /\ ReplayedPaths(o) \subseteq attach[o].seen
              /\ Count(delivered[o], IsArtifact) = Cardinality(ReplayedPaths(o))
              /\ \A i \in 1..Len(delivered[o]) :
                    \/ /\ IsArtifact(delivered[o][i])
                       /\ delivered[o][i].data = ArtifactData(delivered[o][i].data.path)
                    \/ IsFinished(delivered[o][i]) /\ i = Len(delivered[o]) /\ opc[o] = "ended"
        /\ endedBy[o] = "replay" =>
              /\ ReplayedPaths(o) = attach[o].seen
              /\ Len(delivered[o]) = Cardinality(attach[o].seen) + 1
              /\ IsFinished(delivered[o][Len(delivered[o])])
              /\ o \notin Range(subscribers)

C5_Witness ==
    \E o \in Observers :
        /\ endedBy[o] = "replay"
        /\ attach[o].seen # {}
        /\ inflight[o] # << >>

C7_LastStderrReported ==
    \A i \in 1..Len(queue) :
        ( /\ IsFinished(queue[i])
          /\ ~timed_out
          /\ procStatus \in {Some(c) : c \in ExitCodes \ {0}}
          /\ rstrip(last_written) # << >> )
        => /\ queue[i].data.code = procStatus
           /\ "error" \in DOMAIN queue[i].data
           /\ queue[i].data.error = rstrip(last_written)

(***************************************************************************)
(* C8. Exit code 0: a job whose subprocess has written figure.png and no   *)
(* other file and has exited with code 0 ends with exactly one artifact    *)
(* event of kind "figure" and one finished status with code 0 and no       *)
(* error field.  As stated (C8_ExitZero_Original) and for the jobs whose   *)
(* monitor has not taken the timeout branch (C8_ExitZero).                 *)
(***************************************************************************)
IsFigure(m) == IsArtifact(m) /\ m.data.kind = "figure"

ExitZeroEvents ==
    /\ Count(queue, IsFigure) = 1
    /\ Count(queue, IsFinished) = 1
    /\ \A i \in 1..Len(queue) :
          IsFinished(queue[i]) =>
             queue[i].data.code = Some(0) /\ "error" \notin DOMAIN queue[i].data

C8_ExitZero_Original ==
    (mpc = "end" /\ procStatus = Some(0) /\ files = {figure_png}) => ExitZeroEvents

C8_ExitZero ==
    (mpc = "end" /\ procStatus = Some(0) /\ files = {figure_png} /\ ~timed_out)
        => ExitZeroEvents

C8_Witness ==
    /\ mpc = "end" /\ procStatus = Some(0) /\ files = {figure_png} /\ ~timed_out
    /\ last_stderr # << >>

(***************************************************************************)
(* C9. cancel_job changes nothing of the job but the signal it sends (and  *)
(* the returncode its poll may reap): done, finished_at, seen, the         *)
(* subscriber list, the registry and every queue stay as they are; done    *)
(* is set by the monitor's M_Done only and the finished status is put by   *)
(* its M_Finished only.                                                    *)
(***************************************************************************)
C9_CancelFrame ==
    [][ /\ cancel_job =>
             UNCHANGED <<done, finished_at, seen, subscribers, JOBS, queue, inflight,
                         delivered, last_stderr, started_at>>
        /\ done' # done => M_Done
        /\ Count(queue', IsFinished) # Count(queue, IsFinished) => M_Finished
      ]_vars

C9_Witness ==
    /\ mpc = "end" /\ done
    /\ \E k \in 1..Len(cancel_log) :
          cancel_log[k].status = "cancelled" /\ cancel_log[k].signalled
    /\ \E i \in 1..Len(queue) :
          IsFinished(queue[i]) /\ queue[i].data.code = Some(0 - SIGTERM)

(***************************************************************************)
(* C10. Whenever cancel_job has answered "cancelled", the subprocess ends  *)
(* and the job's one finished status has a nonzero code (or -1); a call    *)
(* that finds done true answers "already_finished" and sends no signal.    *)
(***************************************************************************)
C10_Cancelled ==
    /\ (mpc = "end" /\ \E k \in 1..Len(cancel_log) : cancel_log[k].status = "cancelled")
         => /\ Count(queue, IsFinished) = 1
            /\ \A i \in 1..Len(queue) :
                  IsFinished(queue[i]) => queue[i].data.code \notin {None, Some(0)}
    /\ \A k \in 1..Len(cancel_log) :
          cancel_log[k].status = "already_finished" => ~cancel_log[k].signalled

(***************************************************************************)
(* C16. A call of _scan_artifacts made when every existing candidate file  *)
(* is already in seen puts no event and leaves seen and the rest of the    *)
(* job as they are: the monitor just goes on to what follows the scan.     *)
(***************************************************************************)
NothingNewToScan ==
    \A i \in 1..Len(Candidates(files)) :
        Candidates(files)[i] \in files => Candidates(files)[i] \in seen

C16_ScanIdempotent ==
    [][ (M_ScanBegin /\ NothingNewToScan) =>
           /\ mpc' = AfterScan
           /\ UNCHANGED <<seen, queue, inflight, subscribers, done, finished_at,
                          started_at, last_stderr, JOBS, files, mphase, idle_cycles,
                          timed_out>>
      ]_vars

C16_Witness ==
    /\ mpc = "poll"
    /\ idle_cycles = DEBOUNCE_CYCLES - 1
    /\ seen = FileUniverse
    /\ Count(queue, IsArtifact) = Cardinality(FileUniverse)

(***************************************************************************)
(* C18. Debounce: the counter stays within 0..4 and counts poll cycles     *)
(* that found the subprocess not alive; a cycle that finds it alive sets   *)
(* the counter to 0, any other adds one; without a timeout the polling     *)
(* loop is left only with the counter at 4.                                *)
(***************************************************************************)
C18_Debounce ==
    /\ [](/\ idle_cycles \in 0..DEBOUNCE_CYCLES
          /\ idle_cycles > 0 => ~procAlive
          /\ mphase = "final" => (timed_out \/ idle_cycles = DEBOUNCE_CYCLES))
    /\ [][ /\ (mpc = "poll" /\ mpc' = "scan") =>
                idle_cycles' = IF procAlive THEN 0 ELSE idle_cycles + 1
           /\ (mphase = "loop" /\ mphase' = "final" /\ ~timed_out') =>
                (idle_cycles = DEBOUNCE_CYCLES - 1 /\ idle_cycles' = DEBOUNCE_CYCLES)
           /\ idle_cycles' # idle_cycles => (mpc = "poll" /\ mpc' = "scan")
         ]_vars

C18_Witness ==
    /\ mpc = "end" /\ ~timed_out
    /\ idle_cycles = DEBOUNCE_CYCLES
    /\ njumps > 0

(***************************************************************************)
(* C19. Final scan: once the polling loop is left, by debounce or by       *)
(* timeout, one more scan runs and only then the finished status is put;   *)
(* every file output_dir held when the loop was left has its artifact      *)
(* event in the queue before the finished status.                          *)
(***************************************************************************)
ArtifactBeforeFinished(rel_path) ==
    \A i \in 1..Len(queue) :
        IsFinished(queue[i]) =>
           \E k \in 1..(i - 1) : IsArtifact(queue[k]) /\ queue[k].data.path = rel_path

C19_FinalScan ==
    /\ []((\E i \in 1..Len(queue) : IsFinished(queue[i])) =>
             /\ mphase = "final"
             /\ loop_end_files \subseteq seen
             /\ \A f \in loop_end_files : ArtifactBeforeFinished(f))
    /\ [][ /\ (mpc' = "scan" /\ mpc # "scan") => mphase = "loop"
           /\ (mpc' = "finished" /\ mpc # "finished") =>
                (mphase = "final" /\ mpc \in {"scan", "scan_loop"})
         ]_vars

C19_Witness ==
    /\ mpc = "end"
    /\ timed_out
    /\ loop_end_files = FileUniverse
    /\ seen = FileUniverse

(***************************************************************************)
(* C20. Finalization order: finished status, run-log artifact,             *)
(* finished_at, done, close.  So done implies finished_at > 0, which       *)
(* implies the run-log artifact is in the queue, which implies the         *)
(* finished status is in front of it; close implies done; done and         *)
(* finished_at are written once.                                           *)
(***************************************************************************)
IsRunLog(m) == IsArtifact(m) /\ m.data.kind = "log"

C20_FinalizeOrder ==
    /\ [](/\ done => finished_at > 0
          /\ finished_at > 0 => Count(queue, IsRunLog) = 1
          /\ \A i \in 1..Len(queue) :
                IsRunLog(queue[i]) => \E k \in 1..(i - 1) : IsFinished(queue[k])
          /\ \A i \in 1..Len(queue) : IsClose(queue[i]) => done
          /\ ~done => mpc # "end")
    /\ [][ /\ done' # done => (~done /\ done' /\ M_Done)
           /\ finished_at' # finished_at => (finished_at = 0 /\ finished_at' > 0 /\ M_Stamp)
         ]_vars

C20_Witness ==
    /\ mpc = "end" /\ done
    /\ finished_at > JOB_TIMEOUT_SECONDS
    /\ Count(queue, IsClose) = 1

(***************************************************************************)
(* C15. Fan-out order.  A fan-out puts one message at the tail of the      *)
(* queue of every attached subscriber, in one step, and of no other; a     *)
(* subscriber takes from the head of its queue; so each subscriber is      *)
(* delivered its events in the order of the fan-outs, and what any two     *)
(* subscribers have both received is in the same order for both.           *)
(***************************************************************************)
FanStep ==
    \E m \in {mmsg} \cup Range(dmsg) :
        \A o \in DOMAIN inflight :
            inflight'[o] = IF o \in Range(subscribers) THEN Append(inflight[o], m)
                           ELSE inflight[o]

TakeStep(o) ==
    /\ inflight[o] # << >>
    /\ inflight'[o] = Tail(inflight[o])
    /\ \/ delivered'[o] = Append(delivered[o], Head(inflight[o]))
       \/ IsClose(Head(inflight[o])) /\ delivered'[o] = delivered[o]
    /\ \A q \in DOMAIN inflight \ {o} :
          inflight'[q] = inflight[q] /\ delivered'[q] = delivered[q]

\* s and t are two windows of one sequence: where they overlap they agree
SameWindowOrder(s, t) ==
    \/ s = << >> \/ t = << >>
    \/ \A i \in 1..Len(s), j \in 1..Len(t) : s[i] # t[j]
    \/ \E d \in (1 - Len(s))..(Len(t) - 1) :
          /\ \E i \in 1..Len(s) : (i + d) \in 1..Len(t)
          /\ \A i \in 1..Len(s) : (i + d) \in 1..Len(t) => s[i] = t[i + d]

C15_FanOrder ==
    /\ [](\A o, q \in DOMAIN inflight :
             (attach[o].mode # "replay" /\ attach[q].mode # "replay") =>
                 SameWindowOrder(Received(o), Received(q)))
    /\ [][ /\ inflight' # inflight => (FanStep \/ \E o \in DOMAIN inflight : TakeStep(o))
           /\ \A o \in DOMAIN inflight :
                 (delivered'[o] # delivered[o] /\ opc[o] = "live") => TakeStep(o)
         ]_vars

C15_Witness ==
    /\ endedBy["o1"] = "close" /\ endedBy["o2"] = "close"
    /\ Len(delivered["o1"]) > Len(delivered["o2"])
    /\ Len(delivered["o2"]) >= 3
    /\ Count(delivered["o2"], IsLog) = 1
    /\ \E i \in 1..Len(queue) : IsLog(queue[i]) /\ i > 1 /\ IsFinished(queue[i - 1])
    /\ IsLog(delivered["o2"][1])

(***************************************************************************)
(* C17. An error raised in the monitor (a delivery to a subscriber that    *)
(* fails during a fan-out) is contained: the monitor thread is not ended   *)
(* by it before the job has reached done, with its finished status and     *)
(* its close in the queue.                                                 *)
(***************************************************************************)
C17_ErrorsContained ==
    mpc = "raised" =>
        /\ done
        /\ Count(queue, IsFinished) = 1
        /\ Count(queue, IsClose) = 1

(***************************************************************************)
(* C11. Retention.  When the sweep of a monitor has completed, every job   *)
(* that was done with finished_at older than the retention window at the   *)
(* time of the sweep is out of the registry; an entry leaves the registry  *)
(* only if its job is done and its finished_at is older than the window;   *)
(* the steps of the sweep change no job: no process, no output file, no    *)
(* done flag, no finished_at.                                              *)
(***************************************************************************)
C11_Retention ==
    /\ [](\A j \in RegJobs :
             fleet[j].mon = "end" =>
                \A k \in RegJobs :
                    is_expired(fleet[k].done, fleet[k].finished_at, sweep[j].now)
                        => k \notin JOBS)
    /\ [][ /\ \A k \in JOBS \ JOBS' :
                 /\ fleet[k].done /\ fleet[k].finished_at > 0
                 /\ now - fleet[k].finished_at > JOB_RETENTION_SECONDS
           /\ cleanup_old_jobs =>
                 \A k \in RegJobs :
                    /\ fleet'[k].proc = fleet[k].proc
                    /\ fleet'[k].has_output = fleet[k].has_output
                    /\ fleet'[k].done = fleet[k].done
                    /\ fleet'[k].finished_at = fleet[k].finished_at
         ]_vars

(***************************************************************************)
(* C12. The registry under concurrent use: no sweep ends with an error,    *)
(* whatever run_job inserts and whatever the other monitors remove while   *)
(* it iterates.                                                            *)
(***************************************************************************)
C12_SweepSafe == \A j \in RegJobs : fleet[j].mon # "raised"

(***************************************************************************)
(* C14. A submission whose spawn fails is answered with the error at once, *)
(* inserts no Job and starts no monitor; a job is inserted once, and       *)
(* before its monitor is started.                                          *)
(***************************************************************************)
C14_SpawnFailure ==
    /\ [](\A j \in RegJobs :
             /\ fleet[j].rpc = "failed" =>
                   /\ fleet[j].response = "error"
                   /\ fleet[j].inserts = 0 /\ j \notin JOBS
                   /\ fleet[j].mon = "none" /\ ~fleet[j].done
                   /\ \A i \in 1..Len(slots) : slots[i] # j
             /\ fleet[j].inserts <= 1
             /\ j \in JOBS => fleet[j].inserts = 1
             /\ fleet[j].mon # "none" => fleet[j].inserts = 1
             /\ fleet[j].response = "ok" => fleet[j].mon # "none")
    /\ [][ \A j \in RegJobs :
              /\ (fleet[j].mon = "none" /\ fleet'[j].mon # "none") => j \in JOBS
              /\ fleet[j].rpc = "failed" => fleet'[j] = fleet[j]
         ]_vars

C14_Witness ==
    \E j, k \in RegJobs :
        /\ fleet[j].rpc = "failed"
        /\ fleet[k].rpc = "returned" /\ fleet[k].mon = "end"
        /\ Cardinality(JOBS) = 2

(***************************************************************************)
(* C13. get_artifact serves a file only if the resolved path is inside the *)
(* job's output directory, and answers "Invalid path" to every request of  *)
(* a known job whose resolved path is outside it, a sibling directory      *)
(* whose name starts with the name of the job's directory included.        *)
(***************************************************************************)
\* the path is output_dir itself or below it
Inside(candidate) ==
    /\ Len(candidate) >= Len(output_dir)
    /\ SubSeq(candidate, 1, Len(output_dir)) = output_dir

C13_Containment ==
    aresp \notin {"none", "pending"} =>
        /\ aresp = "200 FileResponse" => Inside(candidate_of(areq))
        /\ (areq.job \in JOBS /\ ~Inside(candidate_of(areq))) => aresp = "400 Invalid path"

(***************************************************************************)
(* C26. job.seen never loses an element and changes only in a step of the  *)
(* monitor's scanner; it holds the path of every artifact event published  *)
(* but the run-log one; once done is true it is exactly the set of those   *)
(* paths.                                                                  *)
(***************************************************************************)
\* the paths of the artifact events published so far, the run log left out
PublishedPaths ==
    {queue[i].data.path :
        i \in {k \in 1..Len(queue) : IsArtifact(queue[k]) /\ queue[k].data.kind # "log"}}

C26_Seen ==
    /\ [](PublishedPaths \subseteq seen)
    /\ [](done => seen = PublishedPaths)
    /\ [][/\ seen \subseteq seen'
          /\ seen' # seen => mpc \in {"scan", "scan_loop"}]_vars

C26_Witness == done /\ seen = FileUniverse /\ PublishedPaths = FileUniverse

(***************************************************************************)
(* C25. _classify_artifact returns, for every path, one kind of the closed *)
(* set: each of the five exact file names has its own kind; a path ending  *)
(* in _nobg.png is icon_nobg, under icons/ too; any other path under       *)
(* icons/ ending in .png is icon_raw; every other path is artifact.        *)
(***************************************************************************)
ArtifactKinds ==
    {"figure", "samed", "icon_nobg", "icon_raw", "template_svg", "optimized_svg",
     "final_svg", "artifact"}

\* the kind of each exact file name
ExactKind ==
    (figure_png :> "figure") @@ (samed_png :> "samed") @@ (template_svg :> "template_svg")
    @@ (optimized_template_svg :> "optimized_svg") @@ (final_svg :> "final_svg")

EndsNobg(p) == endswith(p, <<"_nobg", ".png">>)
IconsPng(p) == startswith(p, <<"icons/">>) /\ endswith(p, <<".png">>)

C25_Classify ==
    classify_out # "none" =>
        /\ classify_out \in ArtifactKinds
        /\ classify_in \in DOMAIN ExactKind => classify_out = ExactKind[classify_in]
        /\ EndsNobg(classify_in) => classify_out = "icon_nobg"
        /\ (IconsPng(classify_in) /\ ~EndsNobg(classify_in)) => classify_out = "icon_raw"
        /\ (/\ classify_in \notin DOMAIN ExactKind
            /\ ~EndsNobg(classify_in)
            /\ ~IconsPng(classify_in)) => classify_out = "artifact"

\* an icon without background under icons/ has been classified
C25_Witness ==
    /\ classify_out = "icon_nobg"
    /\ classify_in = <<"icons/", "_nobg", ".png">>

(***************************************************************************)
(* C24. The finished status a replay yields is the finished status the     *)
(* monitor published for the job: same code, same error (present or        *)
(* absent, same text), however the job ended.                              *)
(***************************************************************************)
\* the finished status events of a sequence of messages
FinishedOf(s) == SelectSeq(s, IsFinished)

C24_ReplayEqualsLive ==
    \A o \in DOMAIN opc :
        endedBy[o] = "replay" => FinishedOf(delivered[o]) = FinishedOf(queue)

(***************************************************************************)
(* C23. An observer stream that has ended, on the close event or at the    *)
(* end of its replay, has delivered exactly one status event with state    *)
(* "finished", whenever the observer attached: before the finished event,  *)
(* between the finished event and done, or after done.                     *)
(***************************************************************************)
C23_OneFinished ==
    \A o \in DOMAIN opc :
        endedBy[o] \in {"close", "replay"} => Len(FinishedOf(delivered[o])) = 1

(***************************************************************************)
(* C22. Once the stream of an observer has ended, by any route (close      *)
(* received, replay completed, done noticed on a wait expiry, error or     *)
(* disconnect), the queue its handler registered is no longer in           *)
(* _subscribers.                                                           *)
(***************************************************************************)
C22_Detached ==
    \A o \in DOMAIN opc : opc[o] = "ended" => o \notin Range(subscribers)

====
